---- MODULE Spec2Model ----
(***************************************************************************)
(* SSEMCPClient (oxygent/oxy/mcp_tools/sse_mcp_client.py): the connection  *)
(* lifecycle of the SSE MCP client.  init() either keeps one connection    *)
(* and session on the client's exit stack (static headers + keep-alive) or *)
(* opens and closes a connection of its own; call_tool() always opens a    *)
(* connection of its own.  Every await of the code is a separate step, so  *)
(* that operations interleave as cooperative tasks do.                     *)
(***************************************************************************)
EXTENDS Integers, Sequences, FiniteSets, TLC

\* Number of call_tool invocations in flight at once when only call_tool runs.
NumCalls == 2
\* Number of call_tool invocations in flight alongside init() and cleanup().
NumCallers == 1
\* Number of entries the exit stack may hold: a persistent-mode init()
\* starts only if there is room for its connection and its session.
MaxStack == 4

CallIds == 1..NumCalls
CallerIds == 1..NumCallers
\* Identities of connection objects: invocation c of call_tool builds
\* connection c, init() takes the least unused identity of InitConnIds.
InitConnIds == {-i : i \in 1..MaxStack}

\* Python's None for an optional reference; a held reference is <<id>>.
NULL == <<>>

\* self.name, self.headers and self.timeout of the client (fixed at construction).
name == "srv"
headers == "self.headers"
timeout == "self.timeout"

\* The middlewares a client may be configured with (an ordered list).
MiddlewareLists == {<<>>, <<"mw1">>, <<"mw1", "mw2">>}

\* Arguments of call_tool: <<tool_name, arguments, headers>>; "None" is the
\* default of the headers parameter.
CallInputs == {<<"t1", "a1", "None">>, <<"nosuch", "a2", "h1">>}

\* What the remote server serves: the tools it knows, and the tool lists a
\* list_tools request may return.
ServerTools == {"t1", "t2"}
DiscoverySets == {ServerTools}

VARIABLES
    is_dynamic_headers,  \* configuration flag
    is_keep_alive,       \* configuration flag
    middlewares,         \* configured middleware list
    has_add_middleware,  \* whether ClientSession exposes add_middleware()
    _session,            \* self._session: NULL or <<id>>
    _exit_stack,         \* self._exit_stack: sequence of <<"conn"|"session", id>>
    tools,               \* the tool registry filled by add_tools
    conns,               \* the transport: state of every connection object
    initPc,              \* where init() is suspended
    is_fetch_tools,      \* argument of the running / last init()
    initConn,            \* connection opened by the running / last init()
    initErr,             \* the exception init() caught ("none" if none)
    initResult,          \* what the last init() gave its caller
    calls,               \* the call_tool invocations
    logged,              \* logger.error / logger.warning output of the last init()
    outOfOrder,          \* some teardown closed a connection before its session
    doubleRelease,       \* some cleanup() released what was already released
    cleanups,            \* cleanup() calls since the last init() call (at most 2 counted)
    wrappedSince,        \* an init() stored a session, and no cleanup() since
    okSince,             \* an init() returned normally, and no cleanup() since
    toolsAtStart,        \* tools when the running / last init() started
    lastDiscovered       \* last tool list a discovery request returned

cfgVars == <<is_dynamic_headers, is_keep_alive, middlewares, has_add_middleware>>
clientVars == <<_session, _exit_stack, tools>>
initVars == <<initPc, is_fetch_tools, initConn, initErr, initResult>>
ghostVars == <<logged, wrappedSince, okSince, toolsAtStart, lastDiscovered>>
vars == <<cfgVars, clientVars, conns, initVars, calls, ghostVars, outOfOrder, doubleRelease, cleanups>>

----------------------------------------------------------------------------
\* Outcomes an operation gives its caller.
NoOutcome == [status |-> "none", val |-> <<>>]
Returned(v) == [status |-> "ok", val |-> v]
Raised(kind) == [status |-> "raised", val |-> <<kind>>]
Cancelled == [status |-> "cancelled", val |-> <<"CancelledError">>]

\* A connection object nobody holds, and one just opened by sse_client(...).
FreeConn == [open |-> FALSE, sess |-> FALSE, handshaken |-> FALSE,
             headers |-> "-", timeout |-> "-", mws |-> <<>>]
OpenConn(h, t) == [FreeConn EXCEPT !.open = TRUE, !.headers = h, !.timeout = t]

\* Connections the exit stack tracks.
StackConns == {_exit_stack[i][2] : i \in {j \in DOMAIN _exit_stack : _exit_stack[j][1] = "conn"}}

\* sse_client(...) builds a new connection object on every call: the one
\* init() gets, and the one invocation c of call_tool gets.
NewInitConn ==
    LET free == {i \in InitConnIds : ~conns[i].open /\ i \notin StackConns}
    IN  CHOOSE i \in free : \A j \in free : i >= j
\* Mutant: call_tool goes through the persistent session when there is one.
NewCallConnPersistent(c) == IF _session # NULL THEN _session[1] ELSE c
\* Mutant: every invocation of call_tool uses one cached connection.
NewCallConnShared(c) == 1
NewCallConn(c) == c

\* self._session = await ...enter_async_context(ClientSession(read, write))
\* Mutant: the session is kept in a local only.
StoreSessionLocal(id) == NULL
StoreSession(id) == <<id>>

\* Mutant: the mode test forgets is_dynamic_headers.
PersistentKeepAliveOnly == is_keep_alive

\* The mode test of init().
Persistent == ~is_dynamic_headers /\ is_keep_alive

Reverse(s) == [i \in 1..Len(s) |-> s[Len(s) + 1 - i]]

\* Closing a session, then its connection (the exits of nested async with).
CloseSession(cs, id) == [cs EXCEPT ![id].sess = FALSE, ![id].handshaken = FALSE]
CloseConn(cs, id) == [cs EXCEPT ![id] = FreeConn]

\* Mutant: the two scopes are left in the order they were entered.
ScopedReleaseConnFirst(id) ==
    IF conns[id].sess THEN <<<<"conn", id>>, <<"session", id>>>> ELSE <<<<"conn", id>>>>

\* What leaving `async with sse_client(...)`/`async with ClientSession(...)`
\* releases for the connection id: the session if it was entered, then the
\* connection.
ScopedRelease(id) ==
    IF conns[id].sess THEN <<<<"session", id>>, <<"conn", id>>>> ELSE <<<<"conn", id>>>>

\* AsyncExitStack.aclose(): every entry is exited, last pushed first.
RECURSIVE ReleaseAll(_, _)
ReleaseAll(cs, order) ==
    IF order = <<>> THEN cs
    ELSE LET r == Head(order)
         IN  ReleaseAll(IF r[1] = "session" THEN CloseSession(cs, r[2])
                        ELSE CloseConn(cs, r[2]), Tail(order))

\* Whether releasing `order` closes some connection while its session is open.
RECURSIVE Dangles(_, _)
Dangles(cs, order) ==
    IF order = <<>> THEN FALSE
    ELSE LET r == Head(order)
         IN  IF r[1] = "session" THEN Dangles(CloseSession(cs, r[2]), Tail(order))
             ELSE cs[r[2]].sess \/ Dangles(CloseConn(cs, r[2]), Tail(order))

\* Whether releasing `order` releases something that is closed already.
RECURSIVE Redundant(_, _)
Redundant(cs, order) ==
    IF order = <<>> THEN FALSE
    ELSE LET r == Head(order)
         IN  IF r[1] = "session"
             THEN ~cs[r[2]].sess \/ Redundant(CloseSession(cs, r[2]), Tail(order))
             ELSE ~cs[r[2]].open \/ Redundant(CloseConn(cs, r[2]), Tail(order))

\* Mutant: the except clause re-raises what it caught.
InitializationFailureReraised == Raised(initErr)

\* The error init() raises: Exception(f"Server {self.name} error").
InitializationFailure == [status |-> "raised", val |-> <<"Exception", "Server", name, "error">>]

\* session.call_tool on the server: the result of this tool on these arguments.
ToolResult(tool, args) == <<"result", tool, args>>

IdleCall == [pc |-> "idle", tool |-> "-", args |-> "-", headers |-> "-",
             conn |-> NULL, out |-> NoOutcome]

\* The record of an invocation that has given `outcome` to its caller: the
\* connection it used is remembered, and with a result what it was called
\* with; the rest is gone with its frame.
Done(call, outcome) ==
    IF outcome.status = "ok"
    THEN [call EXCEPT !.pc = "done", !.headers = "-", !.out = outcome]
    ELSE [IdleCall EXCEPT !.pc = "done", !.conn = call.conn, !.out = outcome]

----------------------------------------------------------------------------
\* The client after construction.
InitClient ==
    /\ is_dynamic_headers \in BOOLEAN
    /\ is_keep_alive \in BOOLEAN
    /\ middlewares \in MiddlewareLists
    /\ has_add_middleware \in BOOLEAN
    \* the middleware list is read in persistent mode only, and hasattr() is
    \* evaluated only when the list is not empty
    /\ ~(~is_dynamic_headers /\ is_keep_alive) => middlewares = <<>>
    /\ middlewares = <<>> => has_add_middleware
    /\ _session = NULL
    /\ _exit_stack = <<>>
    /\ tools = {}
    /\ initPc = "idle"
    /\ is_fetch_tools = TRUE
    /\ initConn = NULL
    /\ initErr = "none"
    /\ initResult = NoOutcome
    /\ logged = <<>>
    /\ outOfOrder = FALSE
    /\ doubleRelease = FALSE
    /\ cleanups = 0
    /\ wrappedSince = FALSE
    /\ okSince = FALSE
    /\ toolsAtStart = {}
    /\ lastDiscovered = {}

\* init(), cleanup() and NumCallers invocations of call_tool, on a client
\* without middlewares (call_tool does not read the list).
Init ==
    /\ InitClient
    /\ middlewares = <<>>
    /\ calls = [c \in CallerIds |-> IdleCall]
    /\ conns = [i \in CallerIds \cup InitConnIds |-> FreeConn]

----------------------------------------------------------------------------
\* BaseMCPClient.add_tools: a successful discovery replaces the registry.
add_tools(tools_response) == tools_response

\* BaseMCPClient.cleanup(): releases everything the exit stack tracks, last
\* acquired first, and clears the session reference.
cleanup ==
    /\ conns' = ReleaseAll(conns, Reverse(_exit_stack))
    /\ outOfOrder' = (outOfOrder \/ Dangles(conns, Reverse(_exit_stack)))
    /\ doubleRelease' = (doubleRelease \/ Redundant(conns, Reverse(_exit_stack)))
    /\ cleanups' = IF cleanups < 2 THEN cleanups + 1 ELSE cleanups
    /\ _exit_stack' = <<>>
    /\ _session' = NULL
    /\ wrappedSince' = FALSE
    /\ okSince' = FALSE

\* The middleware loop of init(): every middleware, in list order, is added
\* to the session if it has add_middleware(), and logged as ignored if not.
\* `n` is the number of add_middleware() calls that return before one raises
\* (Len(middlewares) when none raises).
\* Mutant: the list is walked from its end.
AttachMiddlewaresReversed(cs, id, n) ==
    IF has_add_middleware
    THEN [cs EXCEPT ![id].mws = SubSeq(Reverse(middlewares), 1, n)]
    ELSE cs
AttachMiddlewares(cs, id, n) ==
    IF has_add_middleware
    THEN [cs EXCEPT ![id].mws = SubSeq(middlewares, 1, n)]
    ELSE cs
\* Mutant: the loop stops after the first middleware it cannot add.
MiddlewareWarningsOnce ==
    IF has_add_middleware \/ middlewares = <<>> THEN <<>>
    ELSE <<<<"warning", middlewares[1]>>>>
MiddlewareWarnings ==
    IF has_add_middleware THEN <<>>
    ELSE [i \in 1..Len(middlewares) |-> <<"warning", middlewares[i]>>]

\* An exception reaches `except Exception as e`: it is logged, and
\* cleanup() is awaited.
InitFail(kind, log) ==
    /\ initErr' = kind
    /\ logged' = Append(log, <<"error", kind>>)
    /\ initPc' = "failing"

\* init(is_fetch_tools) is called and runs to its first await.
InitStart ==
    /\ initPc \in {"idle", "done"}
    /\ Persistent => Len(_exit_stack) + 2 <= MaxStack
    /\ \E fetch \in BOOLEAN : is_fetch_tools' = fetch
    /\ initPc' = IF Persistent THEN "p_open" ELSE "e_open"
    /\ initConn' = NULL
    /\ initErr' = "none"
    /\ initResult' = NoOutcome
    /\ logged' = <<>>
    /\ toolsAtStart' = tools
    /\ cleanups' = 0
    /\ UNCHANGED <<cfgVars, clientVars, conns, calls, outOfOrder, doubleRelease,
                   wrappedSince, okSince, lastDiscovered>>

\* Mutant: the connection is entered by hand, not through the exit stack.
POpenUntracked ==
    /\ initPc = "p_open"
    /\ \/ /\ conns' = [conns EXCEPT ![NewInitConn] = OpenConn(headers, "default")]
          /\ initConn' = <<NewInitConn>>
          /\ initPc' = "p_wrap"
          /\ UNCHANGED <<initErr, logged>>
       \/ /\ InitFail("ConnectionError", logged)
          /\ UNCHANGED <<conns, initConn>>
    /\ UNCHANGED <<cfgVars, clientVars, is_fetch_tools, initResult, calls,
                   outOfOrder, doubleRelease, cleanups, wrappedSince, okSince,
                   toolsAtStart, lastDiscovered>>

\* Persistent mode: enter_async_context(sse_client(...)) returns or raises.
POpen ==
    /\ initPc = "p_open"
    /\ \/ /\ conns' = [conns EXCEPT ![NewInitConn] = OpenConn(headers, "default")]
          /\ _exit_stack' = Append(_exit_stack, <<"conn", NewInitConn>>)
          /\ initConn' = <<NewInitConn>>
          /\ initPc' = "p_wrap"
          /\ UNCHANGED <<initErr, logged>>
       \/ /\ InitFail("ConnectionError", logged)
          /\ UNCHANGED <<conns, _exit_stack, initConn>>
    /\ UNCHANGED <<cfgVars, _session, tools, is_fetch_tools, initResult, calls,
                   outOfOrder, doubleRelease, cleanups, wrappedSince, okSince, toolsAtStart, lastDiscovered>>

\* Persistent mode: enter_async_context(ClientSession(read, write)) returns
\* or raises; on return the session is stored, the middleware loop runs and
\* initialize() is awaited.
PWrap ==
    /\ initPc = "p_wrap"
    /\ \/ \E n \in (IF has_add_middleware THEN 0..Len(middlewares) ELSE {Len(middlewares)}) :
            LET id == initConn[1] IN
            /\ conns' = AttachMiddlewares([conns EXCEPT ![id].sess = TRUE], id, n)
            /\ _exit_stack' = Append(_exit_stack, <<"session", id>>)
            /\ _session' = StoreSession(id)
            /\ wrappedSince' = TRUE
            /\ IF n = Len(middlewares)
               THEN /\ initPc' = "p_handshake"
                    /\ logged' = logged \o MiddlewareWarnings
                    /\ UNCHANGED initErr
               ELSE InitFail("MiddlewareError", logged)
       \/ /\ InitFail("SessionError", logged)
          /\ UNCHANGED <<conns, _exit_stack, _session, wrappedSince>>
    /\ UNCHANGED <<cfgVars, tools, is_fetch_tools, initConn, initResult, calls,
                   outOfOrder, doubleRelease, cleanups, okSince, toolsAtStart, lastDiscovered>>

\* Mutant: is_fetch_tools is ignored, discovery always follows the handshake.
PHandshakeAlwaysDiscover ==
    /\ initPc = "p_handshake"
    /\ \/ /\ conns' = [conns EXCEPT ![_session[1]].handshaken = TRUE]
          /\ initPc' = "p_discover"
          /\ UNCHANGED <<initErr, logged>>
       \/ /\ InitFail("HandshakeError", logged)
          /\ UNCHANGED conns
    /\ UNCHANGED <<cfgVars, clientVars, is_fetch_tools, initConn, initResult, okSince, calls,
                   outOfOrder, doubleRelease, cleanups, wrappedSince, toolsAtStart, lastDiscovered>>

\* Persistent mode: self._session.initialize() returns or raises.
PHandshake ==
    /\ initPc = "p_handshake"
    /\ \/ /\ conns' = [conns EXCEPT ![_session[1]].handshaken = TRUE]
          /\ IF is_fetch_tools
             THEN /\ initPc' = "p_discover"
                  /\ UNCHANGED <<initResult, okSince>>
             ELSE /\ initPc' = "done"
                  /\ initResult' = Returned(<<>>)
                  /\ okSince' = TRUE
          /\ UNCHANGED <<initErr, logged>>
       \/ /\ InitFail("HandshakeError", logged)
          /\ UNCHANGED <<conns, initResult, okSince>>
    /\ UNCHANGED <<cfgVars, clientVars, is_fetch_tools, initConn, calls,
                   outOfOrder, doubleRelease, cleanups, wrappedSince, toolsAtStart, lastDiscovered>>

\* Persistent mode: self.list_tools() returns or raises.
PDiscover ==
    /\ initPc = "p_discover"
    /\ \/ \E resp \in DiscoverySets :
            /\ tools' = add_tools(resp)
            /\ lastDiscovered' = resp
            /\ initPc' = "done"
            /\ initResult' = Returned(<<>>)
            /\ okSince' = TRUE
            /\ UNCHANGED <<initErr, logged>>
       \/ /\ InitFail("DiscoveryError", logged)
          /\ UNCHANGED <<tools, lastDiscovered, initResult, okSince>>
    /\ UNCHANGED <<cfgVars, _session, _exit_stack, conns, is_fetch_tools, initConn,
                   calls, outOfOrder, doubleRelease, cleanups, wrappedSince, toolsAtStart>>

\* Mutant: the except clause raises without cleaning up.
InitExceptNoCleanup ==
    /\ initPc = "failing"
    /\ initResult' = InitializationFailure
    /\ initPc' = "done"
    /\ UNCHANGED <<cfgVars, clientVars, conns, is_fetch_tools, initConn, initErr, calls,
                   ghostVars, outOfOrder, doubleRelease, cleanups>>

\* Mutant: the except clause closes what this init() opened by hand and
\* leaves the exit stack and the session field as they are.
InitExceptManualClose ==
    /\ initPc = "failing"
    /\ conns' = IF initConn = NULL THEN conns
                ELSE ReleaseAll(conns, ScopedRelease(initConn[1]))
    /\ initResult' = InitializationFailure
    /\ initPc' = "done"
    /\ UNCHANGED <<cfgVars, clientVars, is_fetch_tools, initConn, initErr, calls,
                   ghostVars, outOfOrder, doubleRelease, cleanups>>

\* The except clause of init(): cleanup() returns and the opaque error is raised.
InitExcept ==
    /\ initPc = "failing"
    /\ cleanup
    /\ initResult' = InitializationFailure
    /\ initPc' = "done"
    /\ UNCHANGED <<cfgVars, tools, is_fetch_tools, initConn, initErr, calls,
                   logged, toolsAtStart, lastDiscovered>>

\* Ephemeral mode: `async with sse_client(...)` is entered or raises.
EOpen ==
    /\ initPc = "e_open"
    /\ \/ /\ conns' = [conns EXCEPT ![NewInitConn] = OpenConn(headers, "default")]
          /\ initConn' = <<NewInitConn>>
          /\ initPc' = "e_wrap"
          /\ UNCHANGED <<initErr, logged>>
       \/ /\ InitFail("ConnectionError", logged)
          /\ UNCHANGED <<conns, initConn>>
    /\ UNCHANGED <<cfgVars, clientVars, is_fetch_tools, initResult, calls,
                   outOfOrder, doubleRelease, cleanups, wrappedSince, okSince, toolsAtStart, lastDiscovered>>

\* Ephemeral mode: `async with ClientSession(*streams)` is entered, and
\* initialize() awaited, or it raises and the scopes start to unwind.
EWrap ==
    /\ initPc = "e_wrap"
    /\ \/ /\ conns' = [conns EXCEPT ![initConn[1]].sess = TRUE]
          /\ initPc' = "e_handshake"
          /\ UNCHANGED initErr
       \/ /\ initErr' = "SessionError"
          /\ initPc' = "e_close"
          /\ UNCHANGED conns
    /\ UNCHANGED <<cfgVars, clientVars, is_fetch_tools, initConn, initResult, calls,
                   ghostVars, outOfOrder, doubleRelease, cleanups>>

\* Ephemeral mode: session.initialize() returns or raises.
EHandshake ==
    /\ initPc = "e_handshake"
    /\ \/ /\ conns' = [conns EXCEPT ![initConn[1]].handshaken = TRUE]
          /\ initPc' = "e_discover"
          /\ UNCHANGED initErr
       \/ /\ initErr' = "HandshakeError"
          /\ initPc' = "e_close"
          /\ UNCHANGED conns
    /\ UNCHANGED <<cfgVars, clientVars, is_fetch_tools, initConn, initResult, calls,
                   ghostVars, outOfOrder, doubleRelease, cleanups>>

\* Mutant: a discovery that fails half-way has stored the tools it got.
EDiscoverPartial ==
    /\ initPc = "e_discover"
    /\ \/ \E resp \in DiscoverySets :
            /\ tools' = add_tools(resp)
            /\ lastDiscovered' = resp
            /\ UNCHANGED initErr
       \/ /\ initErr' = "DiscoveryError"
          /\ tools' = tools \cup {"t1"}
          /\ UNCHANGED lastDiscovered
    /\ initPc' = "e_close"
    /\ UNCHANGED <<cfgVars, _session, _exit_stack, conns, is_fetch_tools, initConn,
                   initResult, calls, logged, outOfOrder, doubleRelease, cleanups, wrappedSince, okSince, toolsAtStart>>

\* Ephemeral mode: session.list_tools() returns, and add_tools stores the
\* response, or it raises; either way the scopes start to unwind.
EDiscover ==
    /\ initPc = "e_discover"
    /\ \/ \E resp \in DiscoverySets :
            /\ tools' = add_tools(resp)
            /\ lastDiscovered' = resp
            /\ UNCHANGED initErr
       \/ /\ initErr' = "DiscoveryError"
          /\ UNCHANGED <<tools, lastDiscovered>>
    /\ initPc' = "e_close"
    /\ UNCHANGED <<cfgVars, _session, _exit_stack, conns, is_fetch_tools, initConn,
                   initResult, calls, logged, outOfOrder, doubleRelease, cleanups, wrappedSince, okSince, toolsAtStart>>

\* Ephemeral mode: both `async with` scopes are left (session, then
\* connection); init() then returns, or the pending exception reaches the
\* except clause.
EClose ==
    /\ initPc = "e_close"
    /\ conns' = ReleaseAll(conns, ScopedRelease(initConn[1]))
    /\ outOfOrder' = (outOfOrder \/ Dangles(conns, ScopedRelease(initConn[1])))
    /\ IF initErr = "none"
       THEN /\ initPc' = "done"
            /\ initResult' = Returned(<<>>)
            /\ okSince' = TRUE
            /\ UNCHANGED <<initErr, logged>>
       ELSE /\ InitFail(initErr, logged)
            /\ UNCHANGED <<initResult, okSince>>
    /\ UNCHANGED <<cfgVars, clientVars, is_fetch_tools, initConn, calls,
                   wrappedSince, toolsAtStart, lastDiscovered, doubleRelease, cleanups>>

\* The caller cancels a persistent-mode init() at one of its awaits:
\* CancelledError is no Exception, so the except clause does not run.
CancelInitPersistent ==
    /\ initPc \in {"p_open", "p_wrap", "p_handshake", "p_discover"}
    /\ initPc' = "done"
    /\ initResult' = Cancelled
    /\ UNCHANGED <<cfgVars, clientVars, conns, is_fetch_tools, initConn, initErr,
                   calls, ghostVars, outOfOrder, doubleRelease, cleanups>>

\* The caller cancels an ephemeral-mode init() at one of its awaits: the
\* `async with` scopes entered so far are left.
CancelInitEphemeral ==
    /\ initPc \in {"e_open", "e_wrap", "e_handshake", "e_discover", "e_close"}
    /\ IF initConn = NULL
       THEN UNCHANGED <<conns, outOfOrder>>
       ELSE /\ conns' = ReleaseAll(conns, ScopedRelease(initConn[1]))
            /\ outOfOrder' = (outOfOrder \/ Dangles(conns, ScopedRelease(initConn[1])))
    /\ initPc' = "done"
    /\ initResult' = Cancelled
    /\ UNCHANGED <<cfgVars, clientVars, is_fetch_tools, initConn, initErr,
                   calls, ghostVars, doubleRelease, cleanups>>

\* The owner of the client calls cleanup() (between init() calls, not
\* during one); what the last init() gave its caller is history then.
Cleanup ==
    /\ initPc \in {"idle", "done"}
    /\ cleanup
    /\ initPc' = "idle"
    /\ is_fetch_tools' = TRUE
    /\ initConn' = NULL
    /\ initErr' = "none"
    /\ initResult' = NoOutcome
    /\ logged' = <<>>
    /\ toolsAtStart' = tools
    /\ UNCHANGED <<cfgVars, tools, calls, lastDiscovered>>

----------------------------------------------------------------------------
\* call_tool(tool_name, arguments, headers) is called and runs to its first await.
CallStart(c) ==
    /\ calls[c].pc \in {"idle", "done"}
    /\ \E in \in CallInputs :
         calls' = [calls EXCEPT ![c] = [IdleCall EXCEPT !.pc = "open", !.tool = in[1],
                                        !.args = in[2], !.headers = in[3]]]
    /\ UNCHANGED <<cfgVars, clientVars, conns, initVars, ghostVars, outOfOrder, doubleRelease, cleanups>>

\* Mutant: a call without headers falls back to the client's headers.
CallOpenClientHeaders(c) ==
    /\ calls[c].pc = "open"
    /\ \/ /\ conns' = [conns EXCEPT ![NewCallConn(c)] =
                          OpenConn(IF calls[c].headers = "None" THEN headers
                                   ELSE calls[c].headers, timeout)]
          /\ calls' = [calls EXCEPT ![c].conn = <<NewCallConn(c)>>, ![c].pc = "wrap"]
       \/ /\ calls' = [calls EXCEPT ![c] = Done(calls[c], Raised("ConnectionError"))]
          /\ UNCHANGED conns
    /\ UNCHANGED <<cfgVars, clientVars, initVars, ghostVars, outOfOrder, doubleRelease, cleanups>>

\* `async with sse_client(url, headers=headers, timeout=self.timeout)` is
\* entered or raises.
CallOpen(c) ==
    /\ calls[c].pc = "open"
    /\ \/ /\ conns' = [conns EXCEPT ![NewCallConn(c)] = OpenConn(calls[c].headers, timeout)]
          /\ calls' = [calls EXCEPT ![c].conn = <<NewCallConn(c)>>, ![c].pc = "wrap"]
       \/ /\ calls' = [calls EXCEPT ![c] = Done(calls[c], Raised("ConnectionError"))]
          /\ UNCHANGED conns
    /\ UNCHANGED <<cfgVars, clientVars, initVars, ghostVars, outOfOrder, doubleRelease, cleanups>>

\* `async with ClientSession(*streams)` is entered, and initialize()
\* awaited, or it raises.
CallWrap(c) ==
    /\ calls[c].pc = "wrap"
    /\ \/ /\ conns' = [conns EXCEPT ![calls[c].conn[1]].sess = TRUE]
          /\ calls' = [calls EXCEPT ![c].pc = "handshake"]
       \/ /\ calls' = [calls EXCEPT ![c].out = Raised("SessionError"), ![c].pc = "closing"]
          /\ UNCHANGED conns
    /\ UNCHANGED <<cfgVars, clientVars, initVars, ghostVars, outOfOrder, doubleRelease, cleanups>>

\* session.initialize() returns, and session.call_tool is awaited, or it raises.
CallHandshake(c) ==
    /\ calls[c].pc = "handshake"
    /\ \/ /\ conns' = [conns EXCEPT ![calls[c].conn[1]].handshaken = TRUE]
          /\ calls' = [calls EXCEPT ![c].pc = "invoke"]
       \/ /\ calls' = [calls EXCEPT ![c].out = Raised("HandshakeError"), ![c].pc = "closing"]
          /\ UNCHANGED conns
    /\ UNCHANGED <<cfgVars, clientVars, initVars, ghostVars, outOfOrder, doubleRelease, cleanups>>

\* session.call_tool(tool_name, arguments) returns its result or raises; a
\* tool the server does not know always raises.
CallInvoke(c) ==
    /\ calls[c].pc = "invoke"
    /\ \/ /\ calls[c].tool \in ServerTools
          /\ calls' = [calls EXCEPT ![c].out = Returned(ToolResult(calls[c].tool, calls[c].args)),
                                    ![c].pc = "closing"]
       \/ calls' = [calls EXCEPT ![c].out = Raised("InvocationError"), ![c].pc = "closing"]
    /\ UNCHANGED <<cfgVars, clientVars, conns, initVars, ghostVars, outOfOrder, doubleRelease, cleanups>>

\* Mutant: the connection is closed on the normal path only.
CallCloseLeakOnError(c) ==
    /\ calls[c].pc = "closing"
    /\ IF calls[c].out.status = "ok"
       THEN conns' = ReleaseAll(conns, ScopedRelease(calls[c].conn[1]))
       ELSE UNCHANGED conns
    /\ calls' = [calls EXCEPT ![c] = Done(calls[c], calls[c].out)]
    /\ UNCHANGED <<cfgVars, clientVars, initVars, ghostVars, outOfOrder, doubleRelease, cleanups>>

\* Mutant: call_tool wraps what it caught, as init() does.
CallCloseWrapped(c) ==
    /\ calls[c].pc = "closing"
    /\ conns' = ReleaseAll(conns, ScopedRelease(calls[c].conn[1]))
    /\ calls' = [calls EXCEPT ![c] = Done(calls[c], IF calls[c].out.status = "raised"
                                                     THEN Raised("Exception")
                                                     ELSE calls[c].out)]
    /\ UNCHANGED <<cfgVars, clientVars, initVars, ghostVars, outOfOrder, doubleRelease, cleanups>>

\* Mutant: call_tool enters its contexts on the client's exit stack and
\* closes that stack when it is done.
CallCloseExitStack(c) ==
    /\ calls[c].pc = "closing"
    /\ conns' = ReleaseAll(ReleaseAll(conns, ScopedRelease(calls[c].conn[1])),
                           Reverse(_exit_stack))
    /\ _exit_stack' = <<>>
    /\ calls' = [calls EXCEPT ![c] = Done(calls[c], calls[c].out)]
    /\ UNCHANGED <<cfgVars, _session, tools, initVars, ghostVars,
                   outOfOrder, doubleRelease, cleanups>>

\* Both `async with` scopes of call_tool are left (session, then
\* connection), and the result or the exception reaches the caller; the
\* frame of the call, with its arguments, is gone.
CallClose(c) ==
    /\ calls[c].pc = "closing"
    /\ conns' = ReleaseAll(conns, ScopedRelease(calls[c].conn[1]))
    /\ outOfOrder' = (outOfOrder \/ Dangles(conns, ScopedRelease(calls[c].conn[1])))
    /\ calls' = [calls EXCEPT ![c] = Done(calls[c], calls[c].out)]
    /\ UNCHANGED <<cfgVars, clientVars, initVars, ghostVars, doubleRelease, cleanups>>

\* The caller cancels call_tool at one of its awaits: the `async with`
\* scopes entered so far are left.
CancelCall(c) ==
    /\ calls[c].pc \in {"open", "wrap", "handshake", "invoke", "closing"}
    /\ IF calls[c].conn = NULL
       THEN UNCHANGED <<conns, outOfOrder>>
       ELSE /\ conns' = ReleaseAll(conns, ScopedRelease(calls[c].conn[1]))
            /\ outOfOrder' = (outOfOrder \/ Dangles(conns, ScopedRelease(calls[c].conn[1])))
    /\ calls' = [calls EXCEPT ![c] = Done(calls[c], Cancelled)]
    /\ UNCHANGED <<cfgVars, clientVars, initVars, ghostVars, doubleRelease, cleanups>>

CallStep(c) ==
    \/ CallStart(c)
    \/ CallOpen(c)
    \/ CallWrap(c)
    \/ CallHandshake(c)
    \/ CallInvoke(c)
    \/ CallClose(c)
    \/ CancelCall(c)

InitStep ==
    \/ InitStart
    \/ POpen
    \/ PWrap
    \/ PHandshake
    \/ PDiscover
    \/ EOpen
    \/ EWrap
    \/ EHandshake
    \/ EDiscover
    \/ EClose
    \/ InitExcept
    \/ CancelInitPersistent
    \/ CancelInitEphemeral

Next ==
    \/ InitStep
    \/ Cleanup
    \/ \E c \in DOMAIN calls : CallStep(c)

Spec == Init /\ [][Next]_vars

\* Every transport and session step eventually returns or fails: an awaited
\* step of call_tool or of an ephemeral-mode init() is eventually resumed.
\* (Nothing is assumed about callers: they need not call, and may cancel.)
CallProgress(c) ==
    \/ CallOpen(c)
    \/ CallWrap(c)
    \/ CallHandshake(c)
    \/ CallInvoke(c)
    \/ CallClose(c)
EphemeralProgress ==
    \/ EOpen
    \/ EWrap
    \/ EHandshake
    \/ EDiscover
    \/ EClose
    \/ (~Persistent /\ InitExcept)
SpecFair ==
    /\ Spec
    /\ WF_vars(EphemeralProgress)
    /\ \A c \in CallerIds : WF_vars(CallProgress(c))

\* init() and cleanup() alone: no call_tool is ever made.
InitOnly ==
    /\ InitClient
    /\ calls = <<>>
    /\ conns = [i \in InitConnIds |-> FreeConn]
NextInit == InitStep \/ Cleanup
SpecInit == InitOnly /\ [][NextInit]_vars

\* call_tool alone, on a client that was never initialised: NumCalls
\* invocations in flight at once.
InitCalls ==
    /\ InitClient
    /\ calls = [c \in CallIds |-> IdleCall]
    /\ conns = [i \in CallIds |-> FreeConn]
NextCalls == \E c \in DOMAIN calls : CallStep(c)
SpecCalls == InitCalls /\ [][NextCalls]_vars

----------------------------------------------------------------------------
\* States the properties below speak of.
InitReturned == initPc = "done" /\ initResult.status \in {"ok", "raised"}
InitSucceeded == initPc = "done" /\ initResult.status = "ok"
InitFailed == initPc = "done" /\ initResult.status = "raised"
InitCancelled == initPc = "done" /\ initResult.status = "cancelled"
StaticKeepAlive == is_dynamic_headers = FALSE /\ is_keep_alive = TRUE

\* C1 (mode selection): with isDynamicHeaders=false and isKeepAlive=true the
\* client holds an open persistent session once init has returned
\* successfully; with any other flag combination it holds no session once
\* init has returned.
C1_ModeSelection ==
    /\ (StaticKeepAlive /\ InitSucceeded) =>
           (_session # NULL /\ conns[_session[1]].open /\ conns[_session[1]].sess)
    /\ (~StaticKeepAlive /\ InitReturned) => _session = NULL

C1_Witness == StaticKeepAlive /\ InitSucceeded /\ _session # NULL

\* C2 as the specification states it: in every state the session is non-null
\* iff the mode is keep-alive + static headers, an init has completed
\* successfully, and cleanup has not been called since.
C2_SessionIffInitCompleted ==
    _session # NULL <=> (StaticKeepAlive /\ okSince)

\* C2 as the code has it: in every state the session is non-null iff the mode
\* is keep-alive + static headers, an init (still running, cancelled or
\* completed) has stored the session it wrapped, and cleanup has not been
\* called since.
C2_SessionIffStored ==
    _session # NULL <=> (StaticKeepAlive /\ wrappedSince)

C2_Witness == _session # NULL /\ initPc = "p_handshake" /\ ~okSince

\* C3: when an init that failed, at whatever stage and in either mode, has
\* returned, the exit stack is empty and the connection that init opened, and
\* its session, are closed.
C3_FailedInitReleasesAll ==
    InitFailed =>
        /\ _exit_stack = <<>>
        /\ initConn # NULL => (~conns[initConn[1]].open /\ ~conns[initConn[1]].sess)
        /\ \A i \in InitConnIds : ~conns[i].open

C3_Witness == InitFailed /\ initConn # NULL /\ initErr = "HandshakeError"

Owned(stack, sess) ==
    {stack[i][2] : i \in DOMAIN stack} \cup {sess[i] : i \in DOMAIN sess}

\* C5: a step of call_tool, whichever it is and however it ends, leaves the
\* session field, the exit stack and the tool registry as they were, and the
\* connection the call uses is never one the client owns.
C5_CallToolFrame ==
    [][calls' # calls =>
          /\ _session' = _session
          /\ _exit_stack' = _exit_stack
          /\ tools' = tools
          /\ \A c \in DOMAIN calls :
                 calls'[c].conn # NULL =>
                     calls'[c].conn[1] \notin Owned(_exit_stack', _session')]_vars

C5_Witness ==
    \E c \in DOMAIN calls :
        /\ calls[c].pc = "done" /\ calls[c].out.status = "raised" /\ calls[c].conn # NULL
        /\ _session # NULL /\ conns[_session[1]].sess /\ tools # {}

\* An invocation of call_tool that holds a connection.
InFlight(c) == calls[c].pc \in {"wrap", "handshake", "invoke", "closing"}

\* C6: concurrent invocations of call_tool hold different connections; a step
\* of one invocation (its failure and the closing of its connection included)
\* changes neither another invocation nor the connection that one holds; and
\* an invocation returns the result of the tool and arguments it was called
\* with.
C6_CallIsolation ==
    /\ [](\A c, d \in DOMAIN calls :
            (c # d /\ InFlight(c) /\ InFlight(d)) => calls[c].conn # calls[d].conn)
    /\ [](\A c \in DOMAIN calls :
            calls[c].out.status = "ok" =>
                calls[c].out.val = <<"result", calls[c].tool, calls[c].args>>)
    /\ [][\A c, d \in DOMAIN calls :
            (c # d /\ calls'[c] # calls[c]) =>
                /\ calls'[d] = calls[d]
                /\ InFlight(d) => conns'[calls[d].conn[1]] = conns[calls[d].conn[1]]]_vars

C6_Witness ==
    \E c, d \in DOMAIN calls :
        /\ c # d
        /\ calls[c].pc = "done" /\ calls[c].out.status = "raised" /\ calls[c].conn # NULL
        /\ calls[d].pc = "closing" /\ calls[d].out.status = "ok"
        /\ conns[calls[d].conn[1]].sess

\* C7: once call_tool has returned or raised, on whatever path, the
\* connection it opened and the session on it are closed.
C7_CallReleasesOnEveryExit ==
    \A c \in DOMAIN calls :
        (calls[c].pc = "done" /\ calls[c].conn # NULL) =>
            (~conns[calls[c].conn[1]].open /\ ~conns[calls[c].conn[1]].sess)

C7_Witness ==
    \E c \in DOMAIN calls :
        calls[c].pc = "done" /\ calls[c].conn # NULL /\ calls[c].out = Raised("InvocationError")

\* What the transport and the session can raise under call_tool.
CallErrorKinds == {"ConnectionError", "SessionError", "HandshakeError", "InvocationError"}

\* C8: an error raised under call_tool reaches the caller as it was raised:
\* the error the caller gets is of a kind the transport or the session
\* raises, and the call that is closing with an error pending gives its
\* caller that very error (or the cancellation, if it is cancelled).
C8_CallErrorsUnmodified ==
    /\ [](\A c \in DOMAIN calls :
            (calls[c].pc = "done" /\ calls[c].out.status = "raised") =>
                \E k \in CallErrorKinds : calls[c].out.val = <<k>>)
    /\ [][\A c \in DOMAIN calls :
            (calls[c].pc = "closing" /\ calls[c].out.status = "raised" /\ calls'[c].pc = "done")
                => calls'[c].out \in {calls[c].out, Cancelled}]_vars

C8_Witness ==
    \E c \in DOMAIN calls :
        calls[c].pc = "done" /\ calls[c].out.val = <<"InvocationError">>

\* C9 (discovery atomicity): once init is over, in either mode, the registry
\* is either what it was when init started or the full list the last
\* discovery returned, and it is what it was if discovery failed.
C9_DiscoveryAtomic ==
    initPc = "done" =>
        /\ tools = toolsAtStart \/ (tools = lastDiscovered /\ tools \in DiscoverySets)
        /\ initErr = "DiscoveryError" => tools = toolsAtStart

C9_Witness == InitFailed /\ initErr = "DiscoveryError" /\ tools = {} /\ ~StaticKeepAlive

\* C10: once a cancelled init or call_tool is over, the connection it had
\* opened is closed.
C10_CancelReleases ==
    /\ (InitCancelled /\ initConn # NULL) => ~conns[initConn[1]].open
    /\ \A c \in DOMAIN calls :
           (calls[c].pc = "done" /\ calls[c].out.status = "cancelled" /\ calls[c].conn # NULL)
               => ~conns[calls[c].conn[1]].open

\* C11 (cleanup idempotence): no cleanup finds on the exit stack anything an
\* earlier release has closed already, so that a release has nothing to fail
\* on, whether cleanup is called twice in a row, on a client that never
\* acquired anything, or after a failed init (whose except clause has called
\* it once); and the second of two consecutive cleanup calls, like a cleanup
\* of a client that holds nothing, leaves the client and every connection as
\* they were.
C11_CleanupIdempotent ==
    /\ [](~doubleRelease)
    /\ [][(cleanups' > cleanups /\ (cleanups >= 1 \/ initPc = "idle" \/ ~StaticKeepAlive)) =>
            (clientVars' = clientVars /\ conns' = conns /\ outOfOrder' = outOfOrder)]_vars

C11_Witness == cleanups = 2 /\ StaticKeepAlive /\ tools # {} /\ _exit_stack = <<>>

\* C12 (middleware degradation): in persistent mode, on a session without
\* add_middleware(), init never fails over a middleware; once the session is
\* wrapped, init has logged one warning per configured middleware, in list
\* order, and goes on to the handshake; and an init that succeeds has done the
\* handshake and, when discovery was asked for, has stored the full
\* discovered list, as with no middlewares.
C12_MiddlewareDegradation ==
    /\ []((StaticKeepAlive /\ ~has_add_middleware) =>
            /\ initErr # "MiddlewareError"
            /\ (initPc \in {"p_handshake", "p_discover"} \/ InitSucceeded
                    \/ initErr \in {"HandshakeError", "DiscoveryError"}) =>
                   /\ Len(logged) >= Len(middlewares)
                   /\ \A i \in DOMAIN middlewares : logged[i] = <<"warning", middlewares[i]>>
            /\ InitSucceeded =>
                   /\ Len(logged) = Len(middlewares)
                   /\ _session # NULL /\ conns[_session[1]].handshaken
                   /\ conns[_session[1]].mws = <<>>
                   /\ is_fetch_tools => (tools = lastDiscovered /\ tools \in DiscoverySets))
    /\ [][(StaticKeepAlive /\ ~has_add_middleware /\ initPc = "p_wrap"
                /\ Len(_exit_stack') > Len(_exit_stack)) =>
            initPc' = "p_handshake"]_vars

C12_Witness ==
    /\ StaticKeepAlive /\ ~has_add_middleware /\ Len(middlewares) = 2
    /\ InitSucceeded /\ is_fetch_tools /\ tools # {} /\ Len(logged) = 2

\* C13: an init that succeeds has performed discovery exactly when the mode
\* is ephemeral or is_fetch_tools is true.  In ephemeral mode a successful
\* init has stored the discovered list whatever is_fetch_tools is; in
\* persistent mode the discovery request is awaited only with is_fetch_tools
\* true, and an init with is_fetch_tools false never changes the registry.
C13_DiscoveryExactlyWhen ==
    /\ []((InitSucceeded /\ (~StaticKeepAlive \/ is_fetch_tools)) =>
            (tools = lastDiscovered /\ tools \in DiscoverySets))
    /\ [](initPc = "p_discover" => is_fetch_tools)
    /\ []((StaticKeepAlive /\ InitSucceeded /\ ~is_fetch_tools) => tools = toolsAtStart)
    /\ [][(StaticKeepAlive /\ ~is_fetch_tools /\ ~is_fetch_tools') =>
            (tools' = tools /\ lastDiscovered' = lastDiscovered)]_vars

C13_Witness ==
    ~StaticKeepAlive /\ InitSucceeded /\ ~is_fetch_tools /\ toolsAtStart = {} /\ tools # {}

\* The exit stack tracks the connection id and the session on it.
Tracks(stack, id) ==
    /\ \E i \in DOMAIN stack : stack[i] = <<"conn", id>>
    /\ \E i \in DOMAIN stack : stack[i] = <<"session", id>>

\* C14: from the return of a successful persistent-mode init until cleanup is
\* called, the session the client holds and its connection are open and
\* tracked by the exit stack, and no step that is not a cleanup call (a
\* step of call_tool that starts, returns or fails in particular) takes an
\* entry off the exit stack or closes what an entry tracks.
C14_PersistentHeldUntilCleanup ==
    /\ []((StaticKeepAlive /\ okSince) =>
            /\ _session # NULL
            /\ conns[_session[1]].open /\ conns[_session[1]].sess
            /\ Tracks(_exit_stack, _session[1])
            /\ \E i \in DOMAIN _exit_stack :
                   /\ _exit_stack[i][1] = "session"
                   /\ conns[_exit_stack[i][2]].handshaken)
    /\ [][(StaticKeepAlive /\ okSince /\ ~(cleanups' > cleanups)) =>
            \A i \in DOMAIN _exit_stack :
                /\ i \in DOMAIN _exit_stack' /\ _exit_stack'[i] = _exit_stack[i]
                /\ conns[_exit_stack[i][2]].open => conns'[_exit_stack[i][2]].open
                /\ conns[_exit_stack[i][2]].sess => conns'[_exit_stack[i][2]].sess
                /\ conns[_exit_stack[i][2]].handshaken => conns'[_exit_stack[i][2]].handshaken]_vars

C14_Witness ==
    /\ StaticKeepAlive /\ okSince /\ InitSucceeded
    /\ conns[_session[1]].handshaken
    /\ \E c \in DOMAIN calls :
           calls[c].pc = "done" /\ calls[c].out = Raised("HandshakeError")

\* C15: releases run in the reverse of the acquisition order on every path.
\* No teardown (cleanup of the exit stack, the scopes of an ephemeral init,
\* the scopes of call_tool, on return, error or cancellation) closes a
\* connection whose session is still open, so no session is ever open on a
\* closed connection; the exit stack holds a session above its connection;
\* and when the exit stack becomes empty everything it tracked is closed.
C15_ReverseReleaseOrder ==
    /\ [](~outOfOrder)
    /\ [](\A i \in DOMAIN conns : conns[i].sess => conns[i].open)
    /\ [](\A j \in DOMAIN _exit_stack :
            _exit_stack[j][1] = "session" =>
                \E i \in 1..(j - 1) : _exit_stack[i] = <<"conn", _exit_stack[j][2]>>)
    /\ [][(_exit_stack # <<>> /\ _exit_stack' = <<>>) =>
            \A i \in DOMAIN _exit_stack :
                ~conns'[_exit_stack[i][2]].open /\ ~conns'[_exit_stack[i][2]].sess]_vars

C15_Witness ==
    /\ StaticKeepAlive /\ InitFailed /\ initErr = "DiscoveryError" /\ initConn # NULL
    /\ ~conns[initConn[1]].open
    /\ \E c \in DOMAIN calls :
           calls[c].pc = "done" /\ calls[c].out.status = "ok" /\ ~conns[calls[c].conn[1]].open

\* C16: a persistent-mode init opens the connection, wraps the session,
\* attaches the middlewares in list order, does the handshake and then, if
\* asked to, the discovery.  A session exists only on an open connection
\* and is handshaken only once wrapped; what is attached to a session is
\* always a prefix of the middlewares list; when the handshake is awaited or
\* done, all of them are attached (on a session with add_middleware()) and
\* nothing is attached afterwards; the discovery request is awaited only on
\* a handshaken session, and the registry changes only at that request.
C16_PersistentInitOrder ==
    /\ [](\A i \in DOMAIN conns :
            /\ conns[i].handshaken => conns[i].sess
            /\ conns[i].sess => conns[i].open
            /\ Len(conns[i].mws) <= Len(middlewares)
            /\ conns[i].mws = SubSeq(middlewares, 1, Len(conns[i].mws))
            /\ conns[i].mws # <<>> => conns[i].sess)
    /\ [](StaticKeepAlive =>
            /\ initPc = "p_wrap" =>
                   (initConn # NULL /\ conns[initConn[1]].open /\ ~conns[initConn[1]].sess)
            /\ initPc = "p_handshake" =>
                   /\ _session = initConn /\ conns[_session[1]].sess
                   /\ ~conns[_session[1]].handshaken
                   /\ has_add_middleware => conns[_session[1]].mws = middlewares
            /\ initPc = "p_discover" =>
                   (_session = initConn /\ conns[_session[1]].handshaken /\ is_fetch_tools))
    /\ [][\A i \in DOMAIN conns :
            (conns[i].handshaken \/ conns'[i].handshaken) =>
                (conns'[i].mws = conns[i].mws \/ ~conns'[i].open)]_vars
    /\ [][(StaticKeepAlive /\ (tools' # tools \/ lastDiscovered' # lastDiscovered)) =>
            initPc = "p_discover"]_vars

C16_Witness ==
    /\ StaticKeepAlive /\ has_add_middleware /\ InitSucceeded /\ is_fetch_tools
    /\ conns[_session[1]].mws = <<"mw1", "mw2">> /\ conns[_session[1]].handshaken
    /\ tools # {}

\* C17: what a connection is opened with depends only on the operation that
\* opens it.  The connection of a call_tool invocation carries the headers
\* argument of that invocation ("None" when it was omitted), never the
\* client's headers, and the client's timeout; a connection opened by init,
\* in either mode, carries the client's headers and is opened without a
\* timeout argument.
C17_HeadersAndTimeoutByOperation ==
    /\ \A c \in DOMAIN calls :
           InFlight(c) =>
               /\ conns[calls[c].conn[1]].headers = calls[c].headers
               /\ conns[calls[c].conn[1]].headers \in {"None", "h1"}
               /\ conns[calls[c].conn[1]].timeout = "self.timeout"
    /\ \A i \in InitConnIds :
           conns[i].open =>
               (conns[i].headers = "self.headers" /\ conns[i].timeout = "default")

C17_Witness ==
    /\ \E c \in DOMAIN calls :
           /\ InFlight(c) /\ calls[c].headers = "None"
           /\ conns[calls[c].conn[1]].open /\ conns[calls[c].conn[1]].headers = "None"
    /\ ~StaticKeepAlive /\ initPc = "e_handshake" /\ conns[initConn[1]].open

\* C18: once cleanup has returned, and until init is called again, the client
\* owns nothing: the exit stack is empty, the session field is null, and
\* every connection an init has opened, and every session on one, is closed.
\* This holds whatever inits came before, a second persistent-mode init that
\* pushed a new connection and session above the first pair included.
C18_NothingOwnedAfterCleanup ==
    /\ [](cleanups >= 1 =>
            /\ _exit_stack = <<>>
            /\ _session = NULL
            /\ \A i \in InitConnIds : ~conns[i].open /\ ~conns[i].sess)
    /\ [][cleanups' > cleanups =>
            \A i \in DOMAIN _exit_stack :
                ~conns'[_exit_stack[i][2]].open /\ ~conns'[_exit_stack[i][2]].sess]_vars

C18_Witness ==
    /\ StaticKeepAlive /\ cleanups = 1 /\ InitFailed
    /\ initConn = <<-2>> /\ initErr = "HandshakeError"
    /\ \A i \in InitConnIds : ~conns[i].open

\* No init() and no call_tool is in flight.
Quiescent ==
    /\ initPc \in {"idle", "done"}
    /\ \A c \in DOMAIN calls : calls[c].pc \in {"idle", "done"}

OpenConnections == Cardinality({i \in DOMAIN conns : conns[i].open})

\* C19, the part about termination: with every awaited step eventually
\* resumed, a call_tool that has started, and an ephemeral-mode init that has
\* started, eventually completes.
C19_Terminates ==
    /\ \A c \in CallerIds : (calls[c].pc \notin {"idle", "done"}) ~> (calls[c].pc = "done")
    /\ (~StaticKeepAlive /\ initPc \notin {"idle", "done"}) ~> (initPc = "done")

\* C19, the part about resources: a call_tool or an ephemeral-mode init that
\* has completed has no connection of its own open; and with no operation in
\* flight the number of open connections is 1 if a persistent session is
\* held and 0 otherwise.
C19_QuiescentConnections ==
    /\ \A c \in DOMAIN calls :
           (calls[c].pc = "done" /\ calls[c].conn # NULL) => ~conns[calls[c].conn[1]].open
    /\ (~StaticKeepAlive /\ initPc = "done" /\ initConn # NULL) => ~conns[initConn[1]].open
    /\ Quiescent => OpenConnections = (IF _session # NULL THEN 1 ELSE 0)

====
